---- MODULE Spec2Model ----
(***************************************************************************)
(* The /search handler of the RadioFM plugin server (src/server.js): the   *)
(* request validation, the single upstream call, the interpretation of     *)
(* the upstream envelope, the extraction of the "radio" and "podcast"      *)
(* buckets, the two item mappers and the response.                         *)
(*                                                                         *)
(* JavaScript values are tagged records; a string is the sequence of its   *)
(* characters, so that trim, parseInt and template concatenation are       *)
(* computed character by character.                                        *)
(***************************************************************************)
EXTENDS Integers, Sequences, FiniteSets

VARIABLES pc, rawQuery, query, calls, reply, resp, alive, rawItem, mapped

vars == <<pc, rawQuery, query, calls, reply, resp, alive, rawItem, mapped>>

---------------------------------------------------------------------------
(* Bounds of the model.                                                    *)

\* concurrent /search requests
NumReqs == 2
\* longest query string enumerated
MaxQueryLen == 2
\* longest upstream bucket list enumerated
MaxBuckets == 2
\* longest item list of one bucket enumerated
MaxItems == 2
\* longest raw counter string enumerated
MaxCounterLen == 2
\* largest raw counter given as a JSON number
MaxNum == 2

---------------------------------------------------------------------------
(* JavaScript values.                                                      *)

Undef == [k |-> "undefined"]

Null == [k |-> "null"]

NaN == [k |-> "NaN"]

Str(s) == [k |-> "string", s |-> s]

Num(n) == [k |-> "number", n |-> n]

Arr(a) == [k |-> "array", a |-> a]

Obj(f) == [k |-> "object", f |-> f]

\* the exception raised by reading a property of null/undefined or by
\* calling something that is not a function
TypeError == [k |-> "TypeError"]

Nullish(v) == v.k \in {"undefined", "null"}

\* ToBoolean, as used by !x, x || y and x && y
Truthy(v) ==
    CASE v.k \in {"undefined", "null", "NaN"} -> FALSE
      [] v.k = "string" -> v.s # << >>
      [] v.k = "number" -> v.n # 0
      [] OTHER -> TRUE

\* a || b
Or(a, b) == IF Truthy(a) THEN a ELSE b

\* v.p for a value v that is not null/undefined: an own property of an
\* object, undefined for a missing property and for a primitive or array
Get(v, p) ==
    IF v.k = "object" /\ p \in DOMAIN v.f THEN v.f[p] ELSE Undef

IsArray(v) == v.k = "array"

---------------------------------------------------------------------------
(* Strings.                                                                *)

Whitespace == {" "}

DigitChars == <<"0", "1", "2", "3", "4", "5", "6", "7", "8", "9">>

IsDigit(c) == \E d \in 1..10 : DigitChars[d] = c

DigitVal(c) == (CHOOSE d \in 1..10 : DigitChars[d] = c) - 1

RECURSIVE TrimStart(_)
TrimStart(s) ==
    IF s # << >> /\ Head(s) \in Whitespace THEN TrimStart(Tail(s)) ELSE s

RECURSIVE TrimEnd(_)
TrimEnd(s) ==
    IF s # << >> /\ s[Len(s)] \in Whitespace
    THEN TrimEnd(SubSeq(s, 1, Len(s) - 1))
    ELSE s

\* Trim with the trimming left out: the input is used as it came
NoTrim(s) == s

\* String.prototype.trim
Trim(s) == TrimEnd(TrimStart(s))

\* the decimal digits of a natural number
RECURSIVE NatToString(_)
NatToString(n) ==
    IF n < 10 THEN <<DigitChars[n + 1]>>
    ELSE NatToString(n \div 10) \o <<DigitChars[(n % 10) + 1]>>

TextUndefined ==
    <<"u", "n", "d", "e", "f", "i", "n", "e", "d">>

TextNull ==
    <<"n", "u", "l", "l">>

TextNaN ==
    <<"N", "a", "N">>

TextObject ==
    <<"[", "o", "b", "j", "e", "c", "t", " ", "O", "b", "j", "e", "c", "t", "]">>

\* ToString of a value, as applied by parseInt to its argument and by a
\* template literal to an interpolated expression (an array is joined
\* with commas)
RECURSIVE JoinToString(_)
RECURSIVE ToString(_)
ToString(v) ==
    CASE v.k = "string" -> v.s
      [] v.k = "number" ->
           IF v.n < 0 THEN <<"-">> \o NatToString(0 - v.n) ELSE NatToString(v.n)
      [] v.k = "undefined" -> TextUndefined
      [] v.k = "null" -> TextNull
      [] v.k = "NaN" -> TextNaN
      [] v.k = "array" -> JoinToString(v.a)
      [] OTHER -> TextObject

JoinToString(a) ==
    IF a = << >> THEN << >>
    ELSE (IF Nullish(Head(a)) THEN << >> ELSE ToString(Head(a)))
         \o (IF Len(a) > 1 THEN <<",">> \o JoinToString(Tail(a)) ELSE << >>)

\* the value of the longest prefix of digits of s, read left to right
RECURSIVE DigitsValue(_, _)
DigitsValue(s, acc) ==
    IF s # << >> /\ IsDigit(Head(s))
    THEN DigitsValue(Tail(s), acc * 10 + DigitVal(Head(s)))
    ELSE acc

\* parseInt(v, 10): leading white space is skipped, an optional sign is
\* read, then the longest run of decimal digits; NaN when there is none
ParseInt(v) ==
    LET t == TrimStart(ToString(v))
        signed == t # << >> /\ Head(t) \in {"-", "+"}
        body == IF signed THEN Tail(t) ELSE t
        mag == DigitsValue(body, 0)
    IN  IF body = << >> \/ ~IsDigit(Head(body)) THEN NaN
        ELSE IF signed /\ Head(t) = "-" THEN Num(0 - mag)
        ELSE Num(mag)

---------------------------------------------------------------------------
(* The item mappers.                                                       *)

ListenBase ==
    <<"h", "t", "t", "p", "s", ":", "/", "/", "a", "p", "p", "r", "a", "d", "i", "o", "f", "m", ".", "c", "o", "m", "/", "r", "a", "d", "i", "o", "p", "l", "a", "y", "/">>

\* the default "0" of a counter
Zero == Str(<<"0">>)

\* the sentinel of an unknown frequency
Tilde == Str(<<"~">>)

\* mapRadioStation: reading st_id of null/undefined throws
MapRadioStation(station) ==
    IF Nullish(station) THEN TypeError
    ELSE Obj([id |-> Get(station, "st_id"),
              name |-> Get(station, "st_name"),
              logo |-> Get(station, "st_logo"),
              website |-> Get(station, "st_weburl"),
              shortUrl |-> Get(station, "st_shorturl"),
              genre |-> Get(station, "st_genre"),
              languageCode |-> Get(station, "st_lang"),
              language |-> Get(station, "language"),
              frequency |-> IF Get(station, "st_bc_freq") = Tilde THEN Null
                            ELSE Get(station, "st_bc_freq"),
              city |-> Get(station, "st_city"),
              state |-> Get(station, "st_state"),
              countryName |-> Get(station, "country_name_rs"),
              countryCode |-> Get(station, "st_country"),
              playCount |-> ParseInt(Or(Get(station, "st_play_cnt"), Zero)),
              favoriteCount |-> ParseInt(Or(Get(station, "st_fav_cnt"), Zero)),
              streamUrl |-> Get(station, "stream_link"),
              streamType |-> Get(station, "stream_type"),
              streamBitrate |-> Get(station, "stream_bitrate"),
              deeplink |-> Get(station, "deeplink"),
              listenUrl |-> Str(ListenBase \o ToString(Get(station, "st_shorturl")))])

\* mapPodcast: reading p_id of null/undefined throws
MapPodcast(podcast) ==
    IF Nullish(podcast) THEN TypeError
    ELSE Obj([id |-> Get(podcast, "p_id"),
              name |-> Get(podcast, "p_name"),
              description |-> Get(podcast, "p_desc"),
              language |-> Get(podcast, "p_lang"),
              image |-> Get(podcast, "p_image"),
              email |-> Get(podcast, "p_email"),
              category |-> Get(podcast, "cat_name"),
              totalStream |-> ParseInt(Or(Get(podcast, "total_stream"), Zero)),
              deeplink |-> Get(podcast, "deeplink"),
              countryCode |-> Get(podcast, "cc_code")])

---------------------------------------------------------------------------
(* The /search handler after the upstream call.                            *)

MsgMissingQuery ==
    <<"M", "i", "s", "s", "i", "n", "g", " ", "r", "e", "q", "u", "i", "r", "e", "d", " ", "q", "u", "e", "r", "y", " ", "p", "a", "r", "a", "m", "e", "t", "e", "r", ":", " ", "q", "u", "e", "r", "y">>

MsgUnexpected ==
    <<"U", "n", "e", "x", "p", "e", "c", "t", "e", "d", " ", "r", "e", "s", "p", "o", "n", "s", "e", " ", "f", "r", "o", "m", " ", "R", "a", "d", "i", "o", "F", "M", " ", "A", "P", "I">>

MsgApiError ==
    <<"R", "a", "d", "i", "o", "F", "M", " ", "A", "P", "I", " ", "e", "r", "r", "o", "r">>

MsgInternal ==
    <<"I", "n", "t", "e", "r", "n", "a", "l", " ", "s", "e", "r", "v", "e", "r", " ", "e", "r", "r", "o", "r", " ", "w", "h", "i", "l", "e", " ", "s", "e", "a", "r", "c", "h", "i", "n", "g", " ", "R", "a", "d", "i", "o", "F", "M">>

TypeRadio == Str(<<"r", "a", "d", "i", "o">>)

TypePodcast == Str(<<"p", "o", "d", "c", "a", "s", "t">>)

\* res.status(status).json(body)
Response(status, body) == [status |-> status, body |-> body]

ErrorResponse(status, message) == Response(status, Obj([error |-> message]))

\* the last matching entry instead of the first
RECURSIVE FindLastIn(_, _)
FindLastIn(a, type) ==
    IF a = << >> THEN Undef
    ELSE IF Nullish(a[Len(a)]) THEN TypeError
    ELSE IF Get(a[Len(a)], "type") = type THEN a[Len(a)]
    ELSE FindLastIn(SubSeq(a, 1, Len(a) - 1), type)

\* Array.prototype.find with the callback (b) => b.type === type: the
\* entries are visited in order up to the first match; reading .type of a
\* null entry throws
RECURSIVE FindIn(_, _)
FindIn(a, type) ==
    IF a = << >> THEN Undef
    ELSE IF Nullish(Head(a)) THEN TypeError
    ELSE IF Get(Head(a), "type") = type THEN Head(a)
    ELSE FindIn(Tail(a), type)

\* buckets.find(...): a value that is not an array has no find method
Find(buckets, type) ==
    IF IsArray(buckets) THEN FindIn(buckets.a, type) ELSE TypeError

RECURSIVE MapStations(_)
MapStations(items) ==
    IF items = << >> THEN << >>
    ELSE <<MapRadioStation(Head(items))>> \o MapStations(Tail(items))

RECURSIVE MapPodcasts(_)
MapPodcasts(items) ==
    IF items = << >> THEN << >>
    ELSE <<MapPodcast(Head(items))>> \o MapPodcasts(Tail(items))

Thrown(s) == \E i \in 1..Len(s) : s[i] = TypeError

\* the guard on the bucket left out: bucket.data.map(...) on any bucket
StationsUnguarded(radioBucket) ==
    IF Nullish(radioBucket) \/ ~IsArray(Get(radioBucket, "data")) THEN TypeError
    ELSE LET m == MapStations(Get(radioBucket, "data").a)
         IN  IF Thrown(m) THEN TypeError ELSE Arr(m)

\* radioBucket && Array.isArray(radioBucket.data)
\*     ? radioBucket.data.map(mapRadioStation) : []
Stations(radioBucket) ==
    IF Truthy(radioBucket) /\ IsArray(Get(radioBucket, "data"))
    THEN LET m == MapStations(Get(radioBucket, "data").a)
         IN  IF Thrown(m) THEN TypeError ELSE Arr(m)
    ELSE Arr(<< >>)

\* podcastBucket && Array.isArray(podcastBucket.data)
\*     ? podcastBucket.data.map(mapPodcast) : []
Podcasts(podcastBucket) ==
    IF Truthy(podcastBucket) /\ IsArray(Get(podcastBucket, "data"))
    THEN LET m == MapPodcasts(Get(podcastBucket, "data").a)
         IN  IF Thrown(m) THEN TypeError ELSE Arr(m)
    ELSE Arr(<< >>)

\* the body of the try block from the bucket list to res.json: the
\* response, or TypeError when a step throws
BuildResult(q, payload) ==
    LET buckets == Or(Get(payload, "Data"), Arr(<< >>))
        radioBucket == Find(buckets, TypeRadio)
        podcastBucket == Find(buckets, TypePodcast)
        stations == Stations(radioBucket)
        podcasts == Podcasts(podcastBucket)
    IN  IF radioBucket = TypeError THEN TypeError
        ELSE IF podcastBucket = TypeError THEN TypeError
        ELSE IF stations = TypeError THEN TypeError
        ELSE IF podcasts = TypeError THEN TypeError
        ELSE Response(200, Obj([query |-> q,
                                totalStations |-> Num(Len(stations.a)),
                                totalPodcasts |-> Num(Len(podcasts.a)),
                                stations |-> stations,
                                podcasts |-> podcasts]))

\* == 0 instead of === 0: a string or an empty value that converts to 0
ErrorCodeLooselyZero(ec) ==
    \/ ec = Num(0)
    \/ ec.k = "string" /\ ParseInt(ec) = Num(0)
    \/ ec = Str(<< >>)

\* apiData.data.ErrorCode === 0
ErrorCodeIsZero(ec) == ec = Num(0)

\* the message of every application error is the fixed one
FixedErrorBody(payload) == ErrorResponse(502, Str(MsgApiError))

\* res.status(502).json({error: ErrorMessage || "RadioFM API error"})
UpstreamErrorBody(payload) ==
    ErrorResponse(502, Or(Get(payload, "ErrorMessage"), Str(MsgApiError)))

\* the catch block
InternalError == ErrorResponse(500, Str(MsgInternal))

\* the handler from the resolution of axios.get to its response
HandleResolved(q, apiData) ==
    IF ~Truthy(apiData) \/ ~Truthy(Get(apiData, "data"))
    THEN ErrorResponse(502, Str(MsgUnexpected))
    ELSE LET payload == Get(apiData, "data")
         IN  IF ~ErrorCodeIsZero(Get(payload, "ErrorCode"))
             THEN UpstreamErrorBody(payload)
             ELSE LET r == BuildResult(q, payload)
                  IN  IF r = TypeError THEN InternalError ELSE r

---------------------------------------------------------------------------
(* The inputs: query parameters, upstream replies, raw items.              *)

RECURSIVE SeqsUpTo(_, _)
SeqsUpTo(S, n) ==
    IF n = 0 THEN {<< >>}
    ELSE LET P == SeqsUpTo(S, n - 1)
         IN  P \cup {Append(s, x) : s \in P, x \in S}

QueryChars == {" ", "a"}

\* ?query=a&query=b: the query parser hands a repeated parameter over as
\* an array
RepeatedQuery == Arr(<<Str(<<"a">>), Str(<<"b">>)>>)

\* req.query.query: undefined when the parameter is missing
QueryInputs ==
    {Undef, RepeatedQuery}
        \cup {Str(s) : s \in SeqsUpTo(QueryChars, MaxQueryLen)}

ItemIds == {1, 2}

RawStation(i) ==
    Obj([st_id |-> Num(i),
         st_shorturl |-> Str(<<"s", DigitChars[i + 1]>>),
         st_bc_freq |-> IF i = 1 THEN Tilde ELSE Str(<<"9", "8">>),
         st_play_cnt |-> Str(<<"7">>)])

RawPodcast(i) == Obj([p_id |-> Num(i), total_stream |-> Num(i)])

\* anything that is neither absent nor a list
NotAList == Str(<<"x">>)

StationLists ==
    SeqsUpTo({Null} \cup {RawStation(i) : i \in ItemIds}, MaxItems)

PodcastLists ==
    SeqsUpTo({Null} \cup {RawPodcast(i) : i \in ItemIds}, MaxItems)

Bucket(type, data) == Obj([type |-> type, data |-> data])

\* one bucket of either label with every item list, absent and malformed
\* ones included
RichEntries ==
    {Bucket(TypeRadio, d) :
        d \in {Undef, NotAList} \cup {Arr(l) : l \in StationLists}}
        \cup {Bucket(TypePodcast, d) :
                d \in {Undef, NotAList} \cup {Arr(l) : l \in PodcastLists}}

\* a label the handler does not look for
TypeOther == Str(<<"a", "d">>)

\* a null entry, the one-item buckets of either label and a bucket of
\* another label
SimpleEntries ==
    {Null, Bucket(TypeOther, Arr(<<RawStation(1)>>))}
        \cup {Bucket(TypeRadio, Arr(<<RawStation(i)>>)) : i \in ItemIds}
        \cup {Bucket(TypePodcast, Arr(<<RawPodcast(i)>>)) : i \in ItemIds}

BucketLists ==
    SeqsUpTo(SimpleEntries, MaxBuckets)
        \cup {<<e>> : e \in RichEntries}
        \cup {<<e, f>> : e \in RichEntries, f \in SimpleEntries}
        \cup {<<f, e>> : e \in RichEntries, f \in SimpleEntries}

DataValues == {Undef, Null, NotAList} \cup {Arr(l) : l \in BucketLists}

NoResults ==
    <<"N", "o", " ", "r", "e", "s", "u", "l", "t", "s">>

ErrorCodes == {Undef, Null, Num(0), Num(1), Str(<<"0">>)}

ErrorMessages == {Undef, Str(<< >>), Str(NoResults)}

Payload(ec, em, d) == Obj([ErrorCode |-> ec, ErrorMessage |-> em, Data |-> d])

OneStation == Arr(<<Bucket(TypeRadio, Arr(<<RawStation(1)>>))>>)

Payloads ==
    {Payload(ec, em, d) :
        ec \in ErrorCodes, em \in ErrorMessages, d \in {Undef, OneStation}}
        \cup {Payload(Num(0), Undef, d) : d \in DataValues}

Envelope(d) == Obj([data |-> d])

\* response.data: nothing, an empty or a non-JSON body, a JSON array, or
\* an envelope
Bodies ==
    {Undef, Null, Str(<< >>), NotAList, Arr(<< >>)}
        \cup {Envelope(d) : d \in {Undef, Null, NotAList} \cup Payloads}

\* the ways axios.get rejects: no connection, the 15 s timeout, a status
\* outside 2xx
Failures == {"network", "timeout", "status"}

\* the inputs of the concurrent specification
ConcQueries ==
    {Undef, Str(<<" ">>), Str(<<"a">>), Str(<<" ", "b">>), RepeatedQuery}

ConcBodies ==
    {Undef,
     Envelope(Payload(Num(1), Str(NoResults), Undef)),
     Envelope(Payload(Num(0), Undef, OneStation)),
     Envelope(Payload(Num(0), Undef, Arr(<<Null>>)))}

CounterChars == {"0", "1", "a", " ", "-", "."}

RawCounters ==
    {Undef, Null}
        \cup {Str(s) : s \in SeqsUpTo(CounterChars, MaxCounterLen)}
        \cup {Num(n) : n \in (0 - 1)..MaxNum}

FewCounters == {Undef, Str(<<"7">>)}

RawStationWith(play, fav) ==
    Obj([st_id |-> Num(7),
         st_shorturl |-> Str(<<"j", "7">>),
         st_bc_freq |-> Tilde,
         st_play_cnt |-> play,
         st_fav_cnt |-> fav])

RawPodcastWith(total) == Obj([p_id |-> Num(7), total_stream |-> total])

RawItems ==
    {Null}
        \cup {RawStationWith(c, d) : c \in RawCounters, d \in FewCounters}
        \cup {RawStationWith(d, c) : c \in RawCounters, d \in FewCounters}
        \cup {RawPodcastWith(c) : c \in RawCounters}

---------------------------------------------------------------------------
(* The state and the operations.                                           *)

Reqs == 1..NumReqs

NoReply == [k |-> "pending"]

Resolved(body) == [k |-> "resolved", data |-> body]

Rejected(e) == [k |-> "rejected", error |-> e]

NotMapped == [station |-> Undef, podcast |-> Undef]

InitRequests ==
    /\ pc = [r \in Reqs |-> "idle"]
    /\ rawQuery = [r \in Reqs |-> Undef]
    /\ query = [r \in Reqs |-> Str(<< >>)]
    /\ calls = [r \in Reqs |-> 0]
    /\ reply = [r \in Reqs |-> NoReply]
    /\ resp = [r \in Reqs |-> << >>]
    /\ alive = TRUE

Init ==
    /\ InitRequests
    /\ rawItem = Undef
    /\ mapped = NotMapped

TextServerError ==
    <<"I", "n", "t", "e", "r", "n", "a", "l", " ", "S", "e", "r", "v", "e", "r", " ", "E", "r", "r", "o", "r">>

\* What becomes of the promise the async handler returns when it rejects
\* outside the try block.  A router that awaits the handler passes the
\* error to its error handler, which answers 500; a router that drops the
\* returned promise leaves the request without a response, and the
\* rejection, which nothing handles, either is only reported or ends the
\* process, by the runtime's unhandled-rejection mode.
RejectionOutcomes == {"answered", "dropped", "exit"}

UnhandledRejection(r, outcome) ==
    /\ pc' = [pc EXCEPT ![r] = IF outcome = "answered" THEN "done" ELSE "rejected"]
    /\ resp' = [resp EXCEPT ![r] =
                  IF outcome = "answered"
                  THEN Append(@, Response(500, Str(TextServerError)))
                  ELSE @]
    /\ alive' = (outcome # "exit")
    /\ UNCHANGED <<query, calls>>

\* GET /search from its arrival to the first suspension of the handler:
\* the query is read and trimmed, a blank one is answered 400, otherwise
\* axios.get is called and the handler awaits it
Search(r, q) ==
    /\ alive
    /\ pc[r] = "idle"
    /\ rawQuery' = [rawQuery EXCEPT ![r] = q]
    /\ LET operand == Or(q, Str(<< >>))
       IN  IF operand.k # "string"
           THEN \E outcome \in RejectionOutcomes : UnhandledRejection(r, outcome)
           ELSE LET t == Str(Trim(operand.s))
                IN  /\ query' = [query EXCEPT ![r] = t]
                    /\ alive' = alive
                    /\ IF ~Truthy(t)
                       THEN /\ resp' = [resp EXCEPT ![r] =
                                          Append(@, ErrorResponse(400, Str(MsgMissingQuery)))]
                            /\ pc' = [pc EXCEPT ![r] = "done"]
                            /\ calls' = calls
                       ELSE /\ calls' = [calls EXCEPT ![r] = @ + 1]
                            /\ pc' = [pc EXCEPT ![r] = "awaiting"]
                            /\ resp' = resp
    /\ UNCHANGED <<reply, rawItem, mapped>>

\* axios.get resolves with a 2xx response whose decoded body is `body`:
\* the handler resumes and answers
UpstreamResolve(r, body) ==
    /\ alive
    /\ pc[r] = "awaiting"
    /\ reply' = [reply EXCEPT ![r] = Resolved(body)]
    /\ resp' = [resp EXCEPT ![r] = Append(@, HandleResolved(query[r], body))]
    /\ pc' = [pc EXCEPT ![r] = "done"]
    /\ UNCHANGED <<rawQuery, query, calls, alive, rawItem, mapped>>

\* the catch block calling axios.get once more after the first failure
UpstreamRejectRetry(r, e) ==
    /\ alive
    /\ pc[r] = "awaiting"
    /\ reply' = [reply EXCEPT ![r] = Rejected(e)]
    /\ IF calls[r] < 2
       THEN /\ calls' = [calls EXCEPT ![r] = @ + 1]
            /\ UNCHANGED <<resp, pc>>
       ELSE /\ resp' = [resp EXCEPT ![r] = Append(@, InternalError)]
            /\ pc' = [pc EXCEPT ![r] = "done"]
            /\ calls' = calls
    /\ UNCHANGED <<rawQuery, query, alive, rawItem, mapped>>

\* axios.get rejects: the catch block answers 500
UpstreamReject(r, e) ==
    /\ alive
    /\ pc[r] = "awaiting"
    /\ reply' = [reply EXCEPT ![r] = Rejected(e)]
    /\ resp' = [resp EXCEPT ![r] = Append(@, InternalError)]
    /\ pc' = [pc EXCEPT ![r] = "done"]
    /\ UNCHANGED <<rawQuery, query, calls, alive, rawItem, mapped>>

\* several requests in flight, their upstream calls completing in any order
Next ==
    \E r \in Reqs :
        \/ \E q \in ConcQueries : Search(r, q)
        \/ \E body \in ConcBodies : UpstreamResolve(r, body)
        \/ \E e \in Failures : UpstreamReject(r, e)

Spec == Init /\ [][Next]_vars

\* one request against every query and every upstream reply enumerated
NextSearch ==
    \/ \E q \in QueryInputs : Search(1, q)
    \/ \E body \in Bodies : UpstreamResolve(1, body)
    \/ \E e \in Failures : UpstreamReject(1, e)

SpecSearch == Init /\ [][NextSearch]_vars

InitMap ==
    /\ InitRequests
    /\ rawItem \in RawItems
    /\ mapped = NotMapped

NormalizeStation ==
    /\ mapped.station = Undef
    /\ mapped' = [mapped EXCEPT !.station = MapRadioStation(rawItem)]
    /\ UNCHANGED <<pc, rawQuery, query, calls, reply, resp, alive, rawItem>>

NormalizePodcast ==
    /\ mapped.podcast = Undef
    /\ mapped' = [mapped EXCEPT !.podcast = MapPodcast(rawItem)]
    /\ UNCHANGED <<pc, rawQuery, query, calls, reply, resp, alive, rawItem>>

NextMap == NormalizeStation \/ NormalizePodcast

\* the two mappers applied to every raw item enumerated
SpecMap == InitMap /\ [][NextMap]_vars

---------------------------------------------------------------------------
(* Vocabulary of the properties.                                           *)

\* the query parameter is missing, empty or made of white space only
BlankQuery(q) ==
    \/ q = Undef
    \/ q.k = "string" /\ \A i \in 1..Len(q.s) : q.s[i] \in Whitespace

\* the query parameter is a string with a character that is not white space
NonBlankString(q) ==
    q.k = "string" /\ \E i \in 1..Len(q.s) : q.s[i] \notin Whitespace

\* request r has been answered, and st is the status of its response
Answered(r, st) == resp[r] # << >> /\ resp[r][1].status = st

\* the upstream call of r resolved with a decoded body
GotBody(r) == reply[r].k = "resolved"

\* the body is an envelope with a nested payload whose error code is 0
ValidEnvelope(body) ==
    /\ Truthy(body)
    /\ Truthy(Get(body, "data"))
    /\ Get(Get(body, "data"), "ErrorCode") = Num(0)

BucketListOf(body) == Get(Get(body, "data"), "Data")

\* the positions of the entries labeled `type`
Labeled(a, type) ==
    {i \in 1..Len(a) : ~Nullish(a[i]) /\ Get(a[i], "type") = type}

Least(S) == CHOOSE i \in S : \A j \in S : i <= j

\* the item list of the first entry labeled `type`; the empty list when
\* there is no such entry or when its item list is absent or not a list
FirstItems(a, type) ==
    IF Labeled(a, type) = {} THEN << >>
    ELSE LET d == Get(a[Least(Labeled(a, type))], "data")
         IN  IF IsArray(d) THEN d.a ELSE << >>

\* every entry of the bucket list and every item of every item list is
\* there (not null)
WellFormedBuckets(a) ==
    \A i \in 1..Len(a) :
        /\ ~Nullish(a[i])
        /\ IsArray(Get(a[i], "data")) =>
              \A j \in 1..Len(Get(a[i], "data").a) : ~Nullish(Get(a[i], "data").a[j])

Field(r, name) == Get(resp[r][1].body, name)

---------------------------------------------------------------------------
(* C1. A request whose query parameter is missing, empty or white space    *)
(* only is answered 400 in the step that receives it, and its handler      *)
(* never calls the upstream: its call count is 0 and no upstream reply is  *)
(* ever delivered to it.                                                   *)

C1_BlankQueryRejectedWithoutCall ==
    \A r \in Reqs :
        (pc[r] # "idle" /\ BlankQuery(rawQuery[r])) =>
            /\ pc[r] = "done"
            /\ Len(resp[r]) = 1
            /\ resp[r][1] = ErrorResponse(400, Str(MsgMissingQuery))
            /\ calls[r] = 0
            /\ reply[r] = NoReply

C1_Witness ==
    /\ rawQuery[1] = Str(<<" ", " ">>)
    /\ Answered(1, 400)
    /\ calls[1] = 0

---------------------------------------------------------------------------
(* C2, as stated: every invocation of the handler performs exactly one     *)
(* upstream call.                                                          *)

C2_ExactlyOneCallPerInvocation ==
    \A r \in Reqs : pc[r] # "idle" => calls[r] = 1

(* C2, amended: an invocation whose query parameter is a string that is    *)
(* not blank performs exactly one upstream call, made before the handler   *)
(* suspends and never repeated, whatever the upstream answers; every other *)
(* invocation (missing, blank or non-string query) performs none.          *)

C2_OneCallIffQueryNotBlank ==
    \A r \in Reqs :
        /\ calls[r] <= 1
        /\ pc[r] = "idle" => calls[r] = 0
        /\ pc[r] # "idle" =>
              calls[r] = (IF NonBlankString(rawQuery[r]) THEN 1 ELSE 0)

C2_Witness ==
    \E r \in Reqs :
        /\ reply[r] = Rejected("timeout")
        /\ Answered(r, 500)
        /\ calls[r] = 1

---------------------------------------------------------------------------
(* C3. Whenever the upstream call delivers a decoded body that is          *)
(* structurally unexpected (no body, no nested payload, a bucket list that *)
(* is not a list, a null bucket entry), the response is 502; a request     *)
(* whose upstream call delivered a body is never answered 500.             *)

MalformedBody(body) ==
    \/ ~Truthy(body)
    \/ ~Truthy(Get(body, "data"))
    \/ /\ ValidEnvelope(body)
       /\ Truthy(BucketListOf(body))
       /\ \/ ~IsArray(BucketListOf(body))
          \/ \E i \in 1..Len(BucketListOf(body).a) : Nullish(BucketListOf(body).a[i])

C3_MalformedBodyAnswered502 ==
    \A r \in Reqs :
        (GotBody(r) /\ resp[r] # << >>) =>
            /\ MalformedBody(reply[r].data) => resp[r][1].status = 502
            /\ resp[r][1].status # 500

---------------------------------------------------------------------------
(* C4. When the body carries a nested payload whose error code is not the  *)
(* number 0, the response is 502 and its body is exactly {error: m}, where *)
(* m is the payload's error message when there is one (a non-empty string) *)
(* and "RadioFM API error" otherwise; no station or podcast list is sent.  *)

C4_ApplicationErrorAnswered502 ==
    \A r \in Reqs :
        (/\ GotBody(r)
         /\ resp[r] # << >>
         /\ NonBlankString(rawQuery[r])
         /\ Truthy(reply[r].data)
         /\ Truthy(Get(reply[r].data, "data"))
         /\ Get(Get(reply[r].data, "data"), "ErrorCode") # Num(0)) =>
            LET em == Get(Get(reply[r].data, "data"), "ErrorMessage")
                m == IF em.k = "string" /\ Len(em.s) > 0 THEN em ELSE Str(MsgApiError)
            IN  resp[r] = <<Response(502, Obj([error |-> m]))>>

C4_Witness ==
    /\ GotBody(1)
    /\ Get(Get(reply[1].data, "data"), "ErrorCode") = Num(1)
    /\ resp[1] = <<ErrorResponse(502, Str(NoResults))>>

---------------------------------------------------------------------------
(* C5. A 200 response is sent only to a request whose query is not blank,  *)
(* whose upstream call resolved, and whose envelope carries a nested       *)
(* payload object with error code the number 0: a missing error code or    *)
(* one that is not the number 0 (the string "0" included) never yields a   *)
(* 200.                                                                    *)

C5_SuccessOnlyFromValidEnvelope ==
    \A r \in Reqs :
        \A i \in 1..Len(resp[r]) :
            resp[r][i].status = 200 =>
                /\ NonBlankString(rawQuery[r])
                /\ calls[r] = 1
                /\ GotBody(r)
                /\ reply[r].data.k = "object"
                /\ Get(reply[r].data, "data").k = "object"
                /\ Get(Get(reply[r].data, "data"), "ErrorCode") = Num(0)

C5_Witness ==
    /\ Answered(1, 200)
    /\ Field(1, "totalStations") = Num(1)
    /\ reply[1].data = Envelope(Payload(Num(0), Undef, OneStation))

---------------------------------------------------------------------------
(* C6. Every normalized counter (playCount, favoriteCount, totalStream) is *)
(* an integer, never NaN and never a string: 0 when the raw value is       *)
(* missing, empty or a string without any digit, the number itself when    *)
(* the raw value is a number, and its value when it is a string of digits. *)

ExpectedCounter(raw, out) ==
    /\ out.k = "number"
    /\ (Nullish(raw) \/ raw = Str(<< >>)) => out = Num(0)
    /\ (raw.k = "string" /\ \A i \in 1..Len(raw.s) : ~IsDigit(raw.s[i])) => out = Num(0)
    /\ raw.k = "number" => out = raw
    /\ (raw.k = "string" /\ raw.s # << >> /\ \A i \in 1..Len(raw.s) : IsDigit(raw.s[i])) =>
          out = Num(DigitsValue(raw.s, 0))

C6_CountersAreIntegers ==
    /\ mapped.station.k = "object" =>
          /\ ExpectedCounter(Get(rawItem, "st_play_cnt"), Get(mapped.station, "playCount"))
          /\ ExpectedCounter(Get(rawItem, "st_fav_cnt"), Get(mapped.station, "favoriteCount"))
    /\ mapped.podcast.k = "object" =>
          ExpectedCounter(Get(rawItem, "total_stream"), Get(mapped.podcast, "totalStream"))

---------------------------------------------------------------------------
(* C7, as stated: for an envelope with a nested payload and error code 0,  *)
(* a missing bucket is not an error.  Without a bucket list the response   *)
(* is 200 with both lists empty; without a bucket labeled "podcast" (or    *)
(* when its item list is absent or not a list) the response is 200 with    *)
(* totalPodcasts 0 and podcasts empty, stations holding one record per     *)
(* item of the radio bucket; and the same with the two labels exchanged.   *)

MissingBucketTolerated(r, a) ==
    /\ resp[r][1].status = 200
    /\ FirstItems(a, TypePodcast) = << >> =>
          /\ Field(r, "totalPodcasts") = Num(0)
          /\ Field(r, "podcasts") = Arr(<< >>)
          /\ Field(r, "stations").k = "array"
          /\ Len(Field(r, "stations").a) = Len(FirstItems(a, TypeRadio))
    /\ FirstItems(a, TypeRadio) = << >> =>
          /\ Field(r, "totalStations") = Num(0)
          /\ Field(r, "stations") = Arr(<< >>)
          /\ Field(r, "podcasts").k = "array"
          /\ Len(Field(r, "podcasts").a) = Len(FirstItems(a, TypePodcast))

---------------------------------------------------------------------------
(* C8. In every 200 response, query is the query parameter without its     *)
(* leading and trailing white space, totalStations and totalPodcasts are   *)
(* the lengths of stations and podcasts, and each list holds the           *)
(* normalized record of every item, in order, of the first bucket of the   *)
(* upstream list that carries its label; the items of a later bucket with  *)
(* the same label do not appear.                                           *)

\* t is s without its leading and trailing white space
IsTrimOf(t, s) ==
    \E i \in 1..(Len(s) + 1) : \E j \in 0..Len(s) :
        /\ t = SubSeq(s, i, j)
        /\ \A n \in 1..Len(s) : (n < i \/ n > j) => s[n] \in Whitespace
        /\ t # << >> => (t[1] \notin Whitespace /\ t[Len(t)] \notin Whitespace)

C8_ResultEchoesFirstBuckets ==
    \A r \in Reqs :
        (resp[r] # << >> /\ resp[r][1].status = 200) =>
            LET d == BucketListOf(reply[r].data)
                a == IF IsArray(d) THEN d.a ELSE << >>
                radio == FirstItems(a, TypeRadio)
                pod == FirstItems(a, TypePodcast)
                stations == Field(r, "stations")
                podcasts == Field(r, "podcasts")
            IN  /\ Field(r, "query").k = "string"
                /\ IsTrimOf(Field(r, "query").s, rawQuery[r].s)
                /\ stations.k = "array" /\ podcasts.k = "array"
                /\ Field(r, "totalStations") = Num(Len(stations.a))
                /\ Field(r, "totalPodcasts") = Num(Len(podcasts.a))
                /\ Len(stations.a) = Len(radio)
                /\ \A i \in 1..Len(radio) : stations.a[i] = MapRadioStation(radio[i])
                /\ Len(podcasts.a) = Len(pod)
                /\ \A i \in 1..Len(pod) : podcasts.a[i] = MapPodcast(pod[i])

C8_Witness ==
    /\ Answered(1, 200)
    /\ rawQuery[1] = Str(<<" ", "a">>)
    /\ Field(1, "query") = Str(<<"a">>)
    /\ BucketListOf(reply[1].data) =
          Arr(<<Bucket(TypeRadio, Arr(<<RawStation(1)>>)),
                Bucket(TypeRadio, Arr(<<RawStation(2)>>))>>)
    /\ Field(1, "stations") = Arr(<<MapRadioStation(RawStation(1))>>)

---------------------------------------------------------------------------
(* C9. No /search request is ever left without a response by a handler     *)
(* that has ended, none is answered twice, every response has status 200,  *)
(* 400, 502 or 500, and no failure ends the process.                       *)

C9_EveryRequestAnsweredOnce ==
    /\ alive
    /\ \A r \in Reqs :
          /\ Len(resp[r]) <= 1
          /\ pc[r] # "rejected"
          /\ pc[r] = "done" =>
                (Len(resp[r]) = 1 /\ resp[r][1].status \in {200, 400, 502, 500})
          /\ pc[r] \in {"idle", "awaiting"} => resp[r] = << >>

---------------------------------------------------------------------------
(* C10. With several requests in flight, the response of each is the one   *)
(* it gets when it runs alone with the same query and the same upstream    *)
(* reply, and no request changes what another one observes: a request      *)
(* that awaits its upstream reply is still going to be resumed.            *)

\* the responses a request gets when it is the only one
AloneResponses(q, rep) ==
    IF Or(q, Str(<< >>)).k # "string"
    THEN {Response(500, Str(TextServerError))}
    ELSE IF ~Truthy(Str(Trim(Or(q, Str(<< >>)).s)))
    THEN {ErrorResponse(400, Str(MsgMissingQuery))}
    ELSE IF rep.k = "resolved"
    THEN {HandleResolved(Str(Trim(q.s)), rep.data)}
    ELSE {InternalError}

C10_RequestsAreIndependent ==
    \A r \in Reqs :
        /\ resp[r] # << >> =>
              (Len(resp[r]) = 1 /\ resp[r][1] \in AloneResponses(rawQuery[r], reply[r]))
        /\ pc[r] = "awaiting" => alive

====
